---- MODULE Spec2Model ----
(***************************************************************************)
(* Model of glance/store/_drivers/filesystem.py: the filesystem-backed     *)
(* store (Store.configure_add, add, get, get_size, delete, _get_metadata), *)
(* its reader ChunkedFile, its StoreLocation (parse_uri, get_uri), and the *)
(* part of the operating system the driver talks to (a directory of paths  *)
(* naming inodes, open handles, unlink).                                   *)
(*                                                                         *)
(* Several clients call the one Store concurrently; every action is one    *)
(* step of one client between two accesses to the shared filesystem.       *)
(***************************************************************************)
EXTENDS Integers, Sequences, FiniteSets, TLC

\* ------------------------------------------------------------- bounds
\* Longest input stream, in bytes.
MaxLen == 3
\* Longest text after the scheme of a URI given to parse_uri, in characters.
MaxUri == 3
\* ChunkedFile.CHUNKSIZE (65536 in the source, line 85), scaled down so that
\* streams of MaxLen bytes span several chunks.
CHUNKSIZE == 2

Procs == {"p1", "p2"}
Ids == {"a"}
Byte == {1, 2}
\* The byte of a hole left by a write past the end of a file.
Hole == 0

\* Alt(b, n): n bytes alternating from b, so that a stream read or written
\* out of order, or mixed with another, differs from the stream itself.
Alt(b, n) == [i \in 1..n |-> IF i % 2 = 1 THEN b ELSE 3 - b]
\* The input streams: one of every length up to MaxLen, and a second one of
\* the full length with other bytes.
Data == {Alt(1, n) : n \in 0..MaxLen} \cup {Alt(2, MaxLen)}
NoData == <<-1>>
Inodes == 1..(Cardinality(Ids) + Cardinality(Procs))

\* errno values of an IOError raised by open/read/write
IOErrnos == {"EACCES", "ENOSPC", "EFBIG", "EIO", "ENOENT"}
\* what can go wrong while streaming: an IOError, or any other exception
StreamErrors == {"EACCES", "ENOSPC", "EFBIG", "EIO", "Exception"}

\* conf.glance_store.filesystem_store_metadata_file and the file it names:
\* "None" = the option is not set; otherwise the option names a file that is
\* missing, unreadable, not JSON, JSON of the wrong shape, or a valid document
MetaFiles == {"None", "missing", "unreadable", "malformed", "badshape",
              "doc1", "doc2"}
\* the empty dictionary
EmptyMeta == "{}"

VARIABLES
    conf,          \* conf.glance_store.filesystem_store_datadir: "None" or "datadir"
    metaFile,      \* filesystem_store_metadata_file and its file, see MetaFiles
    mkdirAllowed,  \* whether the OS lets the data directory be created
    dirExists,     \* os.path.exists(datadir)
    datadir,       \* Store.datadir: "unset", or the value of conf
    dir,           \* the data directory: path (image id) -> inode, 0 = no file
    inode,         \* inode -> content (a sequence of bytes)
    pc,            \* client -> where it is in its current operation
    aid,           \* client -> image id / location path of its operation
    image,         \* add: the bytes of image_file, the input stream
    image_size,    \* add: the size the caller declared for the image
    checksum,      \* add: the state of the running digest
    written,       \* add: bytes_written (also the offset in image_file and in f)
    fh,            \* add: the inode of the open handle f, 0 = none
    size,          \* get/get_size: filesize from _resolve_location
    fp,            \* ChunkedFile.fp: inode of the open handle, 0 = None
    pos,           \* ChunkedFile.fp's file offset
    gen,           \* the generator of ChunkedFile.__iter__: none/fresh/suspended/done
    got,           \* the chunks the consumer has received, concatenated
    ended,         \* how the last generator finished: eof/error/closed/nofp
    closes,        \* how often fp.close() ran on the reader's handle
    uri,           \* the URI given to StoreLocation.parse_uri
    loc,           \* the StoreLocation: its scheme, its path, how parse_uri ended
    out,           \* what StoreLocation.get_uri returned
    prev,          \* the path of the location that out was formatted from
    ret,           \* what the call that returned in the last step returned to
                   \* its caller (NoRes when the last step ended no call)
    lastAdd        \* id -> the input of the latest add of id that returned
                   \* success and that no delete has removed since (or NoData)

vars == <<conf, metaFile, mkdirAllowed, dirExists, datadir, dir, inode, pc, aid,
          image, image_size, checksum, written, fh, size, fp, pos, gen, got,
          ended, closes, uri, loc, out, prev, ret, lastAdd>>

locVars == <<uri, loc, out, prev>>
storeVars == <<conf, metaFile, mkdirAllowed, dirExists, datadir, dir, inode, pc,
               aid, image, image_size, checksum, written, fh, size, fp, pos,
               gen, got, ended, closes, ret, lastAdd>>
envVars == <<conf, mkdirAllowed, metaFile>>
fsVars == <<dir, inode>>
addVars == <<image, image_size, checksum, written, fh>>
readerVars == <<fp, pos, gen, got, ended, closes>>

\* ------------------------------------------------------------ helpers
Min(a, b) == IF a < b THEN a ELSE b
Max(a, b) == IF a > b THEN a ELSE b

NoRes == [op |-> "none", id |-> "-", status |-> "-", val |-> 0,
          errno |-> "-", cleanup |-> "-",
          declared |-> 0, checksum |-> 0, meta |-> "-"]

\* a call o on id ends with status s (the value v on success; the errno e
\* behind an error; what became of add's partial file)
Result(o, i, s, v, e, c) ==
    [NoRes EXCEPT !.op = o, !.id = i, !.status = s, !.val = v, !.errno = e,
                  !.cleanup = c]

\* line 293: add, called with the declared size d, returns bytes_written n,
\* the checksum sum and the metadata md (the URI is file://datadir/id)
AddReturn(i, d, n, sum, md) ==
    [Result("add", i, "ok", n, "-", "-")
        EXCEPT !.declared = d, !.checksum = sum, !.meta = md]

\* os.path.exists(filepath)
PathExists(id) == dir[id] # 0

\* the inodes some path or some open handle still refers to
Used(d, h, r) ==
    {d[i] : i \in Ids} \cup {h[p] : p \in Procs} \cup {r[p] : p \in Procs}

\* the OS frees an inode when its last link and last handle are gone
Reap(ino, d, h, r) == [n \in Inodes |-> IF n \in Used(d, h, r) THEN ino[n] ELSE <<>>]

FreeInode == CHOOSE n \in Inodes :
    /\ n \notin Used(dir, fh, fp)
    /\ \A m \in Inodes : m < n => m \in Used(dir, fh, fp)

\* (mutant of WriteAt) every write lands at the start of the file
WriteAtStart(content, off, buf) ==
    buf \o SubSeq(content, Len(buf) + 1, Len(content))

\* f.write(buf) at offset off of a file holding content
WriteAt(content, off, buf) ==
    [i \in 1..Max(Len(content), off + Len(buf)) |->
        IF i > off /\ i <= off + Len(buf) THEN buf[i - off]
        ELSE IF i <= Len(content) THEN content[i]
        ELSE Hole]

\* fp.read(n) at offset off: the bytes read (empty at end of file)
ReadAt(content, off, n) ==
    IF off >= Len(content) THEN <<>>
    ELSE SubSeq(content, off + 1, Min(Len(content), off + n))

\* utils.chunkreadable(image_file, CHUNKSIZE): the chunk of the input s that
\* follows the first off bytes (empty at the end of the input)
NextChunk(s, off) == ReadAt(s, off, CHUNKSIZE)

\* checksum.update(buf) on a digest in state h: the bytes of buf are folded
\* in one by one, in order (a small stand-in for MD5's compression: it
\* depends on every byte and on the order of the bytes)
RECURSIVE Update(_, _)
Update(h, buf) ==
    IF buf = <<>> THEN h
    ELSE Update((h * 31 + Head(buf)) % 251, Tail(buf))

\* hashlib.md5(): the state of a digest that has been fed nothing
NewDigest == Update(7, <<>>)

\* the digest of the bytes s taken in one piece
Digest(s) == Update(NewDigest, s)

\* -------------------------------------------------- Store._get_metadata
\* lines 165-167: what the body of the try raises when the metadata file is
\* in state m: open fails (IOError), jsonutils.load rejects the text
\* (ValueError), check_location_metadata rejects the shape (BackendException)
MetadataRaises(m) ==
    IF m \in {"missing", "unreadable"} THEN "IOError"
    ELSE IF m = "malformed" THEN "ValueError"
    ELSE IF m = "badshape" THEN "BackendException"
    ELSE "none"

\* the exceptions that can leave the try: all are subclasses of Exception
Exceptions == {"BackendException", "IOError", "ValueError"}

\* (mutant of GetMetadata) without the last handler, except Exception
GetMetadataTwoHandlers(m) ==
    IF m = "None" THEN [raised |-> "none", value |-> EmptyMeta]
    ELSE IF MetadataRaises(m) = "none" THEN [raised |-> "none", value |-> m]
    ELSE IF MetadataRaises(m) \in {"BackendException", "IOError"}
    THEN [raised |-> "none", value |-> EmptyMeta]
    ELSE [raised |-> MetadataRaises(m), value |-> "-"]

\* lines 160-185: the metadata returned, and the exception that leaves the
\* method (none: the three handlers of lines 169, 175 and 181 return {})
GetMetadata(m) ==
    IF m = "None" THEN [raised |-> "none", value |-> EmptyMeta]
    ELSE IF MetadataRaises(m) = "none" THEN [raised |-> "none", value |-> m]
    ELSE IF MetadataRaises(m) \in {"BackendException", "IOError"}
    THEN [raised |-> "none", value |-> EmptyMeta]
    ELSE IF MetadataRaises(m) \in Exceptions
    THEN [raised |-> "none", value |-> EmptyMeta]
    ELSE [raised |-> MetadataRaises(m), value |-> "-"]

\* -------------------------------------------------------- StoreLocation
\* Texts are sequences of characters.
File == <<"f", "i", "l", "e">>
Filesystem == File \o <<"s", "y", "s", "t", "e", "m">>
Http == <<"h", "t", "t", "p">>
Colon == <<":">>
Slashes == <<"/", "/">>
Digits == {"1"}
\* urlparse.scheme_chars, as far as the characters of the model go
SchemeChars == {"f", "i", "l", "e", "s", "y", "t", "m", "h", "p", "F", "a"}
                   \cup Digits
\* the characters of the text after the scheme: a separator, white space,
\* a letter, the query and fragment marks, a digit
UriChars == {"/", " ", "a", "?", "#", "1"}

\* an attribute that has not been set
Unset == <<"unset">>
\* a StoreLocation on which parse_uri has not run
NewLoc == [status |-> "new", scheme |-> Unset, path |-> Unset]

\* s.find(c): the place of the first c in s, 0 if there is none
Find(s, c) ==
    IF \E i \in 1..Len(s) : s[i] = c
    THEN CHOOSE i \in 1..Len(s) : s[i] = c /\ \A j \in 1..(i - 1) : s[j] # c
    ELSE 0

\* s[:n] and s[n:]
Take(s, n) == [i \in 1..Min(n, Len(s)) |-> s[i]]
Drop(s, n) == [i \in 1..(Len(s) - n) |-> s[i + n]]

\* s.lower(), for the one capital of the model
Lower(s) == [i \in 1..Len(s) |-> IF s[i] = "F" THEN "f" ELSE s[i]]

\* s.strip(): s without the white space at its two ends
Strip(s) ==
    LET black == {i \in 1..Len(s) : s[i] # " "}
    IN IF black = {} THEN <<>>
       ELSE SubSeq(s, CHOOSE i \in black : \A j \in black : i <= j,
                      CHOOSE i \in black : \A j \in black : i >= j)

\* url.split(c, 1)[0]: s up to its first c
Before(s, c) == IF Find(s, c) = 0 THEN s ELSE Take(s, Find(s, c) - 1)

\* urlparse.urlparse(url) of Python 2.7 (line 67): the scheme is the text
\* before the first colon when that text is made of scheme characters and
\* what follows is not a port number; after "//" the netloc runs up to the
\* first of / ? #; the path is what is left, up to the first # or ?
UrlParse(url) ==
    LET i == Find(url, ":")
        word == Take(url, i - 1)
        rest == Drop(url, i)
        isScheme ==
            /\ i > 1
            /\ \/ word = Http
               \/ /\ \A k \in 1..Len(word) : word[k] \in SchemeChars
                  /\ rest = <<>> \/ \E k \in 1..Len(rest) : rest[k] \notin Digits
        u1 == IF isScheme THEN rest ELSE url
        hasNetloc == Take(u1, 2) = Slashes
        ends == {k \in 3..Len(u1) : u1[k] \in {"/", "?", "#"}}
        delim == IF ends = {} THEN Len(u1) + 1
                 ELSE CHOOSE k \in ends : \A j \in ends : k <= j
        u2 == IF hasNetloc THEN Drop(u1, delim - 1) ELSE u1
    IN [scheme |-> IF isScheme THEN Lower(word) ELSE <<>>,
        netloc |-> IF hasNetloc THEN Drop(Take(u1, delim - 1), 2) ELSE <<>>,
        path |-> Before(Before(u2, "#"), "?")]

\* (mutant of ParseUri) the path is taken without the netloc
ParseUriPathOnly(u) ==
    LET pieces == UrlParse(u)
        path == Strip(pieces.path)
    IN IF pieces.scheme \notin {File, Filesystem}
       THEN [status |-> "AssertionError", scheme |-> Unset, path |-> Unset]
       ELSE IF path = <<>>
       THEN [status |-> "BadStoreUri", scheme |-> pieces.scheme, path |-> Unset]
       ELSE [status |-> "ok", scheme |-> pieces.scheme, path |-> path]

\* (mutant of ParseUri) the white space is not trimmed
ParseUriNoStrip(u) ==
    LET pieces == UrlParse(u)
        path == pieces.netloc \o pieces.path
    IN IF pieces.scheme \notin {File, Filesystem}
       THEN [status |-> "AssertionError", scheme |-> Unset, path |-> Unset]
       ELSE IF path = <<>>
       THEN [status |-> "BadStoreUri", scheme |-> pieces.scheme, path |-> Unset]
       ELSE [status |-> "ok", scheme |-> pieces.scheme, path |-> path]

\* lines 61-75: parse_uri(uri) on a new StoreLocation: the location after
\* it, and how it ended
ParseUri(u) ==
    LET pieces == UrlParse(u)
        path == Strip(pieces.netloc \o pieces.path)
    IN IF pieces.scheme \notin {File, Filesystem}
       THEN [status |-> "AssertionError", scheme |-> Unset, path |-> Unset]
       ELSE IF path = <<>>
       THEN [status |-> "BadStoreUri", scheme |-> pieces.scheme, path |-> Unset]
       ELSE [status |-> "ok", scheme |-> pieces.scheme, path |-> path]

\* lines 58-59: get_uri()
GetUri(path) == File \o Colon \o Slashes \o path

\* the URIs given to parse_uri: a text of up to MaxUri characters, alone or
\* after a scheme and a colon, or after a scheme, a colon and two slashes
Texts(n) == UNION {[1..k -> UriChars] : k \in 0..n}
Schemes == {File, Filesystem, <<"F">> \o Tail(File), Http}
Prefixes == {<<>>} \cup {scheme \o Colon : scheme \in Schemes}
                  \cup {scheme \o Colon \o Slashes : scheme \in Schemes}
Uris == {pre \o t : pre \in Prefixes, t \in Texts(MaxUri)}

\* --------------------------------------------------------------- Init
\* the store and its clients before the first call
InitStore ==
    /\ conf \in {"None", "datadir"}
    /\ mkdirAllowed \in BOOLEAN
    /\ dirExists = FALSE
    /\ datadir = "unset"
    /\ dir = [i \in Ids |-> 0]
    /\ inode = [n \in Inodes |-> <<>>]
    /\ pc = [p \in Procs |-> "idle"]
    /\ aid = [p \in Procs |-> "-"]
    /\ metaFile = "None"
    /\ image = [p \in Procs |-> <<>>]
    /\ image_size = [p \in Procs |-> 0]
    /\ checksum = [p \in Procs |-> 0]
    /\ written = [p \in Procs |-> 0]
    /\ fh = [p \in Procs |-> 0]
    /\ size = [p \in Procs |-> 0]
    /\ fp = [p \in Procs |-> 0]
    /\ pos = [p \in Procs |-> 0]
    /\ gen = [p \in Procs |-> "none"]
    /\ got = [p \in Procs |-> <<>>]
    /\ ended = [p \in Procs |-> "-"]
    /\ closes = [p \in Procs |-> 0]
    /\ ret = NoRes
    /\ lastAdd = [i \in Ids |-> NoData]

Init ==
    /\ InitStore
    /\ uri = <<>>
    /\ loc = NewLoc
    /\ out = Unset
    /\ prev = Unset

\* ------------------------------------------------- Store.configure_add
\* lines 125-133: read the option, fail if it is None, test the directory
ConfigureCheck(p) ==
    /\ pc[p] = "idle"
    /\ datadir' = conf
    /\ IF conf = "None"
       THEN /\ ret' = Result("configure", "-",
                         "BadStoreConfiguration", 0, "-", "-")
            /\ pc' = pc
       ELSE IF dirExists
       THEN /\ ret' = Result("configure", "-", "ok", 0, "-", "-")
            /\ pc' = pc
       ELSE /\ ret' = NoRes
            /\ pc' = [pc EXCEPT ![p] = "cfg_mkdir"]
    /\ UNCHANGED <<locVars, envVars, dirExists, fsVars, aid, addVars, size, readerVars, lastAdd>>

\* (mutant of ConfigureMkdir) no second look at the path after makedirs fails
ConfigureMkdirNoRecheck(p) ==
    /\ pc[p] = "cfg_mkdir"
    /\ pc' = [pc EXCEPT ![p] = "idle"]
    /\ IF ~dirExists /\ mkdirAllowed
       THEN /\ dirExists' = TRUE
            /\ ret' = Result("configure", "-", "ok", 0, "-", "-")
       ELSE /\ ret' = Result("configure", "-", "BadStoreConfiguration", 0,
                             IF dirExists THEN "EEXIST" ELSE "EACCES", "-")
            /\ UNCHANGED dirExists
    /\ UNCHANGED <<locVars, envVars, datadir, fsVars, aid, addVars, size, readerVars,
                   lastAdd>>

\* lines 137-148: os.makedirs; on an OSError, succeed if the path exists now
ConfigureMkdir(p) ==
    /\ pc[p] = "cfg_mkdir"
    /\ pc' = [pc EXCEPT ![p] = "idle"]
    /\ IF dirExists
       THEN \* makedirs raises OSError(EEXIST); line 140 finds the path: return
            /\ ret' = Result("configure", "-", "ok", 0,
                                                  "EEXIST", "-")
            /\ UNCHANGED dirExists
       ELSE IF mkdirAllowed
       THEN /\ dirExists' = TRUE
            /\ ret' = Result("configure", "-", "ok", 0, "-", "-")
       ELSE \* makedirs raises, the path still does not exist
            /\ ret' = Result("configure", "-",
                         "BadStoreConfiguration", 0, "EACCES", "-")
            /\ UNCHANGED dirExists
    /\ UNCHANGED <<locVars, envVars, datadir, fsVars, aid, addVars, size, readerVars, lastAdd>>

\* ------------------------------------------------------------ Store.add
\* (mutant of AddCheck) the existence test of line 262 is left out
AddCheckNoGuard(p, id, data, declared) ==
    /\ pc[p] = "idle"
    /\ datadir = "datadir"
    /\ pc' = [pc EXCEPT ![p] = "add_open"]
    /\ aid' = [aid EXCEPT ![p] = id]
    /\ image' = [image EXCEPT ![p] = data]
    /\ image_size' = [image_size EXCEPT ![p] = declared]
    /\ checksum' = [checksum EXCEPT ![p] = NewDigest]
    /\ written' = [written EXCEPT ![p] = 0]
    /\ ret' = NoRes
    /\ UNCHANGED <<locVars, envVars, dirExists, datadir, fsVars, fh, size, readerVars,
                   lastAdd>>

\* lines 239, 260-266: add(image_id, image_file, image_size): the target
\* path, the duplicate guard, the new digest and the byte count
AddCheck(p, id, data, declared) ==
    /\ pc[p] = "idle"
    /\ datadir = "datadir"
    /\ IF PathExists(id)
       THEN /\ ret' = Result("add", id, "Duplicate", 0, "-", "-")
            /\ UNCHANGED <<pc, aid, image, image_size, checksum, written>>
       ELSE /\ pc' = [pc EXCEPT ![p] = "add_open"]
            /\ aid' = [aid EXCEPT ![p] = id]
            /\ image' = [image EXCEPT ![p] = data]
            /\ image_size' = [image_size EXCEPT ![p] = declared]
            /\ checksum' = [checksum EXCEPT ![p] = NewDigest]
            /\ written' = [written EXCEPT ![p] = 0]
            /\ ret' = NoRes
    /\ UNCHANGED <<locVars, envVars, dirExists, datadir, fsVars, fh, size, readerVars,
                   lastAdd>>

\* (mutant of AddOpen) the file is created under another name than the
\* target path
AddOpenElsewhere(p) ==
    /\ pc[p] = "add_open"
    /\ dirExists
    /\ inode' = [inode EXCEPT ![FreeInode] = <<>>]
    /\ fh' = [fh EXCEPT ![p] = FreeInode]
    /\ pc' = [pc EXCEPT ![p] = "add_write"]
    /\ ret' = NoRes
    /\ UNCHANGED <<locVars, envVars, dirExists, datadir, dir, aid, image,
                   image_size, checksum, written, size, readerVars, lastAdd>>

\* line 268: open(filepath, 'wb') creates the file, or truncates the one there
AddOpen(p) ==
    /\ pc[p] = "add_open"
    /\ dirExists
    /\ LET id == aid[p]
           n == IF PathExists(id) THEN dir[id] ELSE FreeInode
       IN /\ dir' = [dir EXCEPT ![id] = n]
          /\ inode' = [inode EXCEPT ![n] = <<>>]
          /\ fh' = [fh EXCEPT ![p] = n]
    /\ pc' = [pc EXCEPT ![p] = "add_write"]
    /\ ret' = NoRes
    /\ UNCHANGED <<locVars, envVars, dirExists, datadir, aid, image, image_size, checksum,
                   written, size, readerVars, lastAdd>>

\* (mutants of DeletesPartial) the partial file is never / always deleted
DeletesPartialNever(e) == FALSE
DeletesPartialAlways(e) == TRUE

\* line 275: the partial file is deleted unless the IOError is EACCES;
\* line 282: and after any other exception
DeletesPartial(e) == IF e \in IOErrnos THEN e # "EACCES" ELSE TRUE

\* (mutant of Raised) the errors table of lines 277-279 is not consulted
RaisedUnmapped(e) == e

\* lines 277-280, 283: the error add raises
Raised(e) ==
    IF e \in {"EFBIG", "ENOSPC"} THEN "StorageFull"
    ELSE IF e = "EACCES" THEN "StorageWriteDenied"
    ELSE e

\* the OS has a choice only where an unlink of an existing file is attempted
OsChoices(p, e) ==
    IF aid[p] \in Ids /\ DeletesPartial(e) /\ PathExists(aid[p])
    THEN BOOLEAN ELSE {TRUE}

\* lines 274-283 with _delete_partial (295-301): the handlers of add's try.
\* osOk: whether the OS carries out the unlink of a file that is there.
Handler(p, e, osOk) ==
    LET id == aid[p]
        unlinks == DeletesPartial(e) /\ PathExists(id) /\ osOk
        d2 == IF unlinks THEN [dir EXCEPT ![id] = 0] ELSE dir
        h2 == [fh EXCEPT ![p] = 0]
    IN /\ dir' = d2
       /\ fh' = h2
       /\ inode' = Reap(inode, d2, h2, fp)
       /\ ret' = Result("add", id, Raised(e), 0, e,
                     IF ~DeletesPartial(e) THEN "none"
                     ELSE IF unlinks THEN "unlinked" ELSE "failed")
       /\ pc' = [pc EXCEPT ![p] = "idle"]
       /\ aid' = [aid EXCEPT ![p] = "-"]
       /\ image' = [image EXCEPT ![p] = <<>>]
       /\ image_size' = [image_size EXCEPT ![p] = 0]
       /\ checksum' = [checksum EXCEPT ![p] = 0]
       /\ written' = [written EXCEPT ![p] = 0]
       /\ UNCHANGED <<locVars, envVars, dirExists, datadir, size, readerVars, lastAdd>>

\* line 268 raising IOError: no handle, nothing created or truncated
AddOpenFail(p, e, osOk) ==
    /\ pc[p] = "add_open"
    /\ e \in IOErrnos
    /\ dirExists => e # "ENOENT"
    /\ ~dirExists => e = "ENOENT"
    /\ Handler(p, e, osOk)

\* (mutant of AddWrite) the digest is started afresh for every chunk
AddWriteFreshDigest(p) ==
    /\ pc[p] = "add_write"
    /\ NextChunk(image[p], written[p]) # <<>>
    /\ LET buf == NextChunk(image[p], written[p])
       IN /\ written' = [written EXCEPT ![p] = written[p] + Len(buf)]
          /\ checksum' = [checksum EXCEPT ![p] = Update(NewDigest, buf)]
          /\ inode' = [inode EXCEPT ![fh[p]] = WriteAt(inode[fh[p]], written[p], buf)]
    /\ ret' = NoRes
    /\ UNCHANGED <<locVars, envVars, dirExists, datadir, dir, pc, aid, image, image_size,
                   fh, size, readerVars, lastAdd>>

\* lines 269-273: one round of the loop: read a chunk, count it, feed it to
\* the digest, write it
AddWrite(p) ==
    /\ pc[p] = "add_write"
    /\ NextChunk(image[p], written[p]) # <<>>
    /\ LET buf == NextChunk(image[p], written[p])
       IN /\ written' = [written EXCEPT ![p] = written[p] + Len(buf)]
          /\ checksum' = [checksum EXCEPT ![p] = Update(checksum[p], buf)]
          /\ inode' = [inode EXCEPT ![fh[p]] = WriteAt(inode[fh[p]], written[p], buf)]
    /\ ret' = NoRes
    /\ UNCHANGED <<locVars, envVars, dirExists, datadir, dir, pc, aid, image, image_size,
                   fh, size, readerVars, lastAdd>>

\* lines 269-273 raising: the read of image_file or f.write fails; the with
\* statement closes f, then the handlers run
AddStreamFail(p, e, osOk) ==
    /\ pc[p] = "add_write"
    /\ e \in StreamErrors
    /\ Handler(p, e, osOk)

\* lines 269, 285-293: the input is exhausted, f is closed, the digest is
\* finalized, the metadata is loaded, add returns (or the exception that
\* left _get_metadata leaves add, the file staying where it is)
AddFinish(p) ==
    /\ pc[p] = "add_write"
    /\ NextChunk(image[p], written[p]) = <<>>
    /\ LET id == aid[p]
           h2 == [fh EXCEPT ![p] = 0]
           md == GetMetadata(metaFile)
       IN /\ fh' = h2
          /\ inode' = Reap(inode, dir, h2, fp)
          /\ IF md.raised = "none"
             THEN /\ ret' = AddReturn(id, image_size[p], written[p],
                                      checksum[p], md.value)
                  /\ lastAdd' = [lastAdd EXCEPT ![id] = image[p]]
             ELSE /\ ret' = Result("add", id, md.raised, 0, "-", "-")
                  /\ UNCHANGED lastAdd
    /\ pc' = [pc EXCEPT ![p] = "idle"]
    /\ aid' = [aid EXCEPT ![p] = "-"]
    /\ image' = [image EXCEPT ![p] = <<>>]
    /\ image_size' = [image_size EXCEPT ![p] = 0]
    /\ checksum' = [checksum EXCEPT ![p] = 0]
    /\ written' = [written EXCEPT ![p] = 0]
    /\ UNCHANGED <<locVars, envVars, dirExists, datadir, dir, size, readerVars>>

\* ---------------------------------------------- Store._resolve_location
\* (mutant of ResolveExists) the existence test of line 154 is left out
ResolveExistsNoCheck(p, id, op) ==
    /\ pc[p] = "idle"
    /\ op \in {"get", "get_size"}
    /\ pc' = [pc EXCEPT ![p] = IF op = "get" THEN "get_stat" ELSE "size_stat"]
    /\ aid' = [aid EXCEPT ![p] = id]
    /\ ret' = NoRes
    /\ UNCHANGED <<locVars, envVars, dirExists, datadir, fsVars, addVars, size, readerVars,
                   lastAdd>>

\* lines 152-155, entered from get (197) or get_size (212)
ResolveExists(p, id, op) ==
    /\ pc[p] = "idle"
    /\ op \in {"get", "get_size"}
    /\ IF PathExists(id)
       THEN /\ pc' = [pc EXCEPT ![p] = IF op = "get" THEN "get_stat" ELSE "size_stat"]
            /\ aid' = [aid EXCEPT ![p] = id]
            /\ ret' = NoRes
       ELSE /\ ret' = Result(op, id, "NotFound", 0, "-", "-")
            /\ UNCHANGED <<pc, aid>>
    /\ UNCHANGED <<locVars, envVars, dirExists, datadir, fsVars, addVars, size, readerVars,
                   lastAdd>>

\* lines 157-158 and, for get_size, 212-215: os.path.getsize raises OSError
\* when the path is gone
ResolveStat(p) ==
    /\ pc[p] \in {"get_stat", "size_stat"}
    /\ LET id == aid[p]
           op == IF pc[p] = "get_stat" THEN "get" ELSE "get_size"
       IN IF ~PathExists(id)
          THEN /\ ret' = Result(op, id, "OSError", 0, "ENOENT", "-")
               /\ pc' = [pc EXCEPT ![p] = "idle"]
               /\ aid' = [aid EXCEPT ![p] = "-"]
               /\ UNCHANGED size
          ELSE IF op = "get"
          THEN /\ size' = [size EXCEPT ![p] = Len(inode[dir[id]])]
               /\ pc' = [pc EXCEPT ![p] = "get_open"]
               /\ ret' = NoRes
               /\ UNCHANGED <<aid>>
          ELSE /\ pc' = [pc EXCEPT ![p] = "idle"]
               /\ aid' = [aid EXCEPT ![p] = "-"]
               /\ ret' =
                     Result(op, id, "ok", Len(inode[dir[id]]), "-", "-")
               /\ UNCHANGED size
    /\ UNCHANGED <<locVars, envVars, dirExists, datadir, fsVars, addVars, readerVars, lastAdd>>

\* ------------------------------------------------------------ Store.get
\* (mutant of GetOpen) get loads the metadata and returns it with the reader
GetOpenWithMetadata(p) ==
    /\ pc[p] = "get_open"
    /\ PathExists(aid[p])
    /\ fp' = [fp EXCEPT ![p] = dir[aid[p]]]
    /\ pos' = [pos EXCEPT ![p] = 0]
    /\ gen' = [gen EXCEPT ![p] = "none"]
    /\ got' = [got EXCEPT ![p] = <<>>]
    /\ ended' = [ended EXCEPT ![p] = "-"]
    /\ closes' = [closes EXCEPT ![p] = 0]
    /\ ret' = [Result("get", aid[p], "ok", size[p], "-", "-")
                  EXCEPT !.meta = GetMetadata(metaFile).value]
    /\ pc' = [pc EXCEPT ![p] = "reader"]
    /\ UNCHANGED <<aid, size>>
    /\ UNCHANGED <<locVars, envVars, dirExists, datadir, fsVars, addVars, lastAdd>>

\* lines 198-200 with ChunkedFile.__init__ (87-89): open(filepath, 'rb');
\* get returns the reader and the size, nothing else
GetOpen(p) ==
    /\ pc[p] = "get_open"
    /\ LET id == aid[p]
       IN IF ~PathExists(id)
          THEN /\ ret' = Result("get", id, "IOError", 0, "ENOENT", "-")
               /\ pc' = [pc EXCEPT ![p] = "idle"]
               /\ aid' = [aid EXCEPT ![p] = "-"]
               /\ size' = [size EXCEPT ![p] = 0]
               /\ UNCHANGED readerVars
          ELSE /\ fp' = [fp EXCEPT ![p] = dir[id]]
               /\ pos' = [pos EXCEPT ![p] = 0]
               /\ gen' = [gen EXCEPT ![p] = "none"]
               /\ got' = [got EXCEPT ![p] = <<>>]
               /\ ended' = [ended EXCEPT ![p] = "-"]
               /\ closes' = [closes EXCEPT ![p] = 0]
               /\ ret' = Result("get", id, "ok", size[p], "-", "-")
               /\ pc' = [pc EXCEPT ![p] = "reader"]
               /\ UNCHANGED <<aid, size>>
    /\ UNCHANGED <<locVars, envVars, dirExists, datadir, fsVars, addVars, lastAdd>>

\* ---------------------------------------------------------- ChunkedFile
\* (mutant of CloseEffect) the handle is closed but fp is not set to None
CloseKeepsFp(p) ==
    IF fp[p] # 0
    THEN /\ closes' = [closes EXCEPT ![p] = closes[p] + 1]
         /\ UNCHANGED <<fp, inode>>
    ELSE UNCHANGED <<closes, fp, inode>>

\* lines 104-108: close(); the variables of client p after it
CloseEffect(p) ==
    IF fp[p] # 0
    THEN /\ closes' = [closes EXCEPT ![p] = closes[p] + 1]
         /\ fp' = [fp EXCEPT ![p] = 0]
         /\ inode' = Reap(inode, dir, fh, [fp EXCEPT ![p] = 0])
    ELSE UNCHANGED <<closes, fp, inode>>

\* line 91: calling __iter__ makes a generator; none of its body runs yet
Iter(p) ==
    /\ pc[p] = "reader"
    /\ gen[p] \in {"none", "done"}
    /\ gen' = [gen EXCEPT ![p] = "fresh"]
    /\ got' = [got EXCEPT ![p] = <<>>]
    /\ ended' = [ended EXCEPT ![p] = "-"]
    /\ ret' = NoRes
    /\ UNCHANGED <<locVars, envVars, dirExists, datadir, fsVars, pc, aid, addVars, size,
                   fp, pos, closes, lastAdd>>

\* lines 93-102: the consumer pulls; the generator runs to its next yield or
\* to its end. readOk: whether the OS carries out the read.
IterNext(p, readOk) ==
    /\ pc[p] = "reader"
    /\ gen[p] \in {"fresh", "suspended"}
    /\ IF gen[p] = "fresh" /\ fp[p] = 0
       THEN \* line 94: fp is None, the loop is skipped
            /\ gen' = [gen EXCEPT ![p] = "done"]
            /\ ended' = [ended EXCEPT ![p] = "nofp"]
            /\ CloseEffect(p)
            /\ UNCHANGED <<pos, got>>
       ELSE IF fp[p] = 0 \/ ~readOk
       THEN \* line 96 raises: AttributeError on None after a close(), or IOError
            /\ gen' = [gen EXCEPT ![p] = "done"]
            /\ ended' = [ended EXCEPT ![p] = "error"]
            /\ CloseEffect(p)
            /\ UNCHANGED <<pos, got>>
       ELSE LET chunk == ReadAt(inode[fp[p]], pos[p], CHUNKSIZE)
            IN IF chunk # <<>>
               THEN /\ gen' = [gen EXCEPT ![p] = "suspended"]
                    /\ pos' = [pos EXCEPT ![p] = pos[p] + Len(chunk)]
                    /\ got' = [got EXCEPT ![p] = got[p] \o chunk]
                    /\ UNCHANGED <<ended, closes, fp, inode>>
               ELSE /\ gen' = [gen EXCEPT ![p] = "done"]
                    /\ ended' = [ended EXCEPT ![p] = "eof"]
                    /\ CloseEffect(p)
                    /\ UNCHANGED <<pos, got>>
    /\ ret' = NoRes
    /\ UNCHANGED <<locVars, envVars, dirExists, datadir, dir, pc, aid, addVars, size, lastAdd>>

\* the consumer gives up the generator (generator.close(), or its collection):
\* GeneratorExit is raised at the yield and the finally clause (101-102) runs;
\* a generator that never started just ends, none of its body runs
IterAbandon(p) ==
    /\ pc[p] = "reader"
    /\ gen[p] \in {"fresh", "suspended"}
    /\ gen' = [gen EXCEPT ![p] = "done"]
    /\ ended' = [ended EXCEPT ![p] = "closed"]
    /\ IF gen[p] = "suspended"
       THEN CloseEffect(p)
       ELSE UNCHANGED <<closes, fp, inode>>
    /\ ret' = NoRes
    /\ UNCHANGED <<locVars, envVars, dirExists, datadir, dir, pc, aid, addVars, size,
                   pos, got, lastAdd>>

\* lines 104-108: the consumer calls close() itself
Close(p) ==
    /\ pc[p] = "reader"
    /\ CloseEffect(p)
    /\ ret' = NoRes
    /\ UNCHANGED <<locVars, envVars, dirExists, datadir, dir, pc, aid, addVars, size,
                   pos, gen, got, ended, lastAdd>>

\* the consumer is done with the ChunkedFile and the client is free again
Release(p) ==
    /\ pc[p] = "reader"
    /\ gen[p] \in {"none", "done"}
    /\ pc' = [pc EXCEPT ![p] = "idle"]
    /\ fp' = [fp EXCEPT ![p] = 0]
    /\ pos' = [pos EXCEPT ![p] = 0]
    /\ gen' = [gen EXCEPT ![p] = "none"]
    /\ got' = [got EXCEPT ![p] = <<>>]
    /\ ended' = [ended EXCEPT ![p] = "-"]
    /\ closes' = [closes EXCEPT ![p] = 0]
    /\ inode' = Reap(inode, dir, fh, [fp EXCEPT ![p] = 0])
    /\ aid' = [aid EXCEPT ![p] = "-"]
    /\ size' = [size EXCEPT ![p] = 0]
    /\ ret' = NoRes
    /\ UNCHANGED <<locVars, envVars, dirExists, datadir, dir, addVars, lastAdd>>

\* --------------------------------------------------------- Store.delete
\* lines 228-230, 236-237: the existence check
DeleteExists(p, id) ==
    /\ pc[p] = "idle"
    /\ IF PathExists(id)
       THEN /\ pc' = [pc EXCEPT ![p] = "del_unlink"]
            /\ aid' = [aid EXCEPT ![p] = id]
            /\ ret' = NoRes
       ELSE /\ ret' = Result("delete", id, "NotFound", 0, "-", "-")
            /\ UNCHANGED <<pc, aid>>
    /\ UNCHANGED <<locVars, envVars, dirExists, datadir, fsVars, addVars, size, readerVars,
                   lastAdd>>

\* lines 231-235: os.unlink; every OSError becomes Forbidden.
\* osOk: whether the OS carries out the unlink of a file that is there.
DeleteUnlink(p, osOk) ==
    /\ pc[p] = "del_unlink"
    /\ pc' = [pc EXCEPT ![p] = "idle"]
    /\ aid' = [aid EXCEPT ![p] = "-"]
    /\ LET id == aid[p]
       IN IF ~PathExists(id)
          THEN /\ ret' =
                     Result("delete", id, "Forbidden", 0, "ENOENT", "-")
               /\ UNCHANGED <<fsVars, lastAdd>>
          ELSE IF ~osOk
          THEN /\ ret' =
                     Result("delete", id, "Forbidden", 0, "EACCES", "-")
               /\ UNCHANGED <<fsVars, lastAdd>>
          ELSE /\ dir' = [dir EXCEPT ![id] = 0]
               /\ inode' = Reap(inode, [dir EXCEPT ![id] = 0], fh, fp)
               /\ lastAdd' = [lastAdd EXCEPT ![id] = NoData]
               /\ ret' = Result("delete", id, "ok", 0, "-", "-")
    /\ UNCHANGED <<locVars, envVars, dirExists, datadir, addVars, size, readerVars>>

\* ---------------------------------------------- StoreLocation, in use
\* lines 61-75: a new location parses the URI
ParseUriStep ==
    /\ loc.status = "new"
    /\ loc' = ParseUri(uri)
    /\ UNCHANGED <<uri, out, prev, storeVars>>

\* lines 58-59: the location parsed is formatted
GetUriStep ==
    /\ loc.status = "ok"
    /\ out = Unset
    /\ out' = GetUri(loc.path)
    /\ UNCHANGED <<uri, loc, prev, storeVars>>

\* the URI that get_uri returned is given to a new location
ReparseStep ==
    /\ out # Unset
    /\ prev = Unset
    /\ uri' = out
    /\ prev' = loc.path
    /\ loc' = NewLoc
    /\ out' = Unset
    /\ UNCHANGED storeVars

\* ------------------------------------------------------ the environment
\* filesystem_store_metadata_file (lines 44-48) is pointed at another file, or
\* the file it names is replaced, between two steps of the store
SetMetadataFile(m) ==
    /\ m \in MetaFiles \ {metaFile}
    /\ metaFile' = m
    /\ ret' = NoRes
    /\ UNCHANGED <<locVars, conf, mkdirAllowed, dirExists, datadir, fsVars, pc,
                   aid, addVars, size, readerVars, lastAdd>>

\* line 239: add called with an image_size that is not the length of the
\* stream it passes
AddMisdeclared(p) ==
    \E id \in Ids, data \in Data, declared \in 0..(MaxLen + 1) :
        /\ declared # Len(data)
        /\ AddCheck(p, id, data, declared)

\* ---------------------------------------------------------------- Next
\* one step of a call of client p on the store
StoreStep(p) ==
    \/ ConfigureCheck(p)
    \/ ConfigureMkdir(p)
    \/ \E id \in Ids, data \in Data : AddCheck(p, id, data, Len(data))
    \/ AddOpen(p)
    \/ \E e \in IOErrnos : \E osOk \in OsChoices(p, e) : AddOpenFail(p, e, osOk)
    \/ AddWrite(p)
    \/ \E e \in StreamErrors : \E osOk \in OsChoices(p, e) : AddStreamFail(p, e, osOk)
    \/ AddFinish(p)
    \/ \E id \in Ids, op \in {"get", "get_size"} : ResolveExists(p, id, op)
    \/ ResolveStat(p)
    \/ GetOpen(p)
    \/ \E id \in Ids : DeleteExists(p, id)
    \/ \E osOk \in BOOLEAN : DeleteUnlink(p, osOk)
    \/ Close(p)
    \/ Release(p)

\* one step of the consumer of the ChunkedFile client p got from get
ConsumeStep(p) ==
    \/ Iter(p)
    \/ \E readOk \in BOOLEAN : IterNext(p, readOk)
    \/ IterAbandon(p)

\* Spec: the clients call the store concurrently, their steps interleave;
\* a reader they get is closed and let go (its consumption is in SeqSpec),
\* the sizes they declare are the lengths of their streams and no metadata
\* file is configured (other sizes and metadata files are in SeqSpec).
Next == \E p \in Procs : StoreStep(p)

Spec == Init /\ [][Next]_vars

\* SeqSpec: one client, one call at a time, consuming the readers it gets,
\* declaring any size for the streams it adds, the metadata file changing
\* between the steps.
SeqNext ==
    \/ \E p \in {"p1"} : StoreStep(p) \/ ConsumeStep(p) \/ AddMisdeclared(p)
    \/ \E m \in MetaFiles : SetMetadataFile(m)

SeqSpec == Init /\ [][SeqNext]_vars

\* UriSpec: locations parse URIs, format them and parse the result again;
\* the store is not called.
UriInit ==
    /\ InitStore
    /\ conf = "None" /\ mkdirAllowed = FALSE
    /\ uri \in Uris
    /\ loc = NewLoc
    /\ out = Unset
    /\ prev = Unset

UriNext == ParseUriStep \/ GetUriStep \/ ReparseStep

UriSpec == UriInit /\ [][UriNext]_vars

\* ============================================================== claims
\* errors of add that are neither permission-denied nor storage-full
GenericErrors == (IOErrnos \cup StreamErrors) \ {"EACCES", "ENOSPC", "EFBIG"}
FullErrnos == {"ENOSPC", "EFBIG"}

\* C1: once an add of id has returned success and no delete has removed the
\* object, a later add of the same id ends at its existence check with
\* Duplicate: it opens no handle, changes no file, and the path still holds
\* the bytes of the first add.
C1_DuplicateGuard ==
    [][\A p \in Procs, id \in Ids, data \in Data :
          (AddCheck(p, id, data, Len(data)) /\ lastAdd[id] # NoData) =>
              /\ ret'.op = "add" /\ ret'.status = "Duplicate"
              /\ pc'[p] = "idle" /\ fh'[p] = 0
              /\ UNCHANGED <<dir, inode>>
              /\ PathExists(id) /\ inode'[dir'[id]] = lastAdd[id]]_vars

C1_Witness ==
    /\ ret.op = "add" /\ ret.status = "Duplicate"
    /\ lastAdd[ret.id] # NoData
    /\ PathExists(ret.id) /\ inode[dir[ret.id]] = lastAdd[ret.id]

\* C2: two adds never hold write handles on the same file: the open is
\* exclusive, so of two adds that both passed the existence check only one
\* gets to write.
C2_ExclusiveCreate ==
    \A p, q \in Procs : (p # q /\ fh[p] # 0) => fh[p] # fh[q]

\* C3: when a get follows a successful add of the id (nothing having removed
\* the object), get and get_size succeed with the number of input bytes as
\* the size, and the chunks of the reader, read to the end, concatenate to the
\* input bytes.
C3_WriteThenRead ==
    /\ \A p \in Procs :
          (pc[p] = "reader" /\ ended[p] = "eof" /\ lastAdd[aid[p]] # NoData)
              => got[p] = lastAdd[aid[p]]
    /\ (ret.op \in {"get", "get_size"} /\ lastAdd[ret.id] # NoData)
          => (ret.status = "ok" /\ ret.val = Len(lastAdd[ret.id]))

C3_Witness ==
    \E p \in Procs :
        /\ pc[p] = "reader" /\ ended[p] = "eof"
        /\ got[p] = lastAdd[aid[p]] /\ Len(got[p]) > CHUNKSIZE

\* C4 (as stated): after an add that a generic error interrupted, no file
\* is left at the target path and the caller gets the original error.
C4_NoFileAfterGenericError ==
    (ret.op = "add" /\ ret.errno \in GenericErrors)
        => (~PathExists(ret.id) /\ ret.status = ret.errno)

\* C4 (amended): after an add that a generic error interrupted, the caller
\* gets the original error, the deletion of the partial file was attempted,
\* and no file is left at the target path unless that deletion failed.
C4_CleanupBestEffort ==
    (ret.op = "add" /\ ret.errno \in GenericErrors)
        => /\ ret.status = ret.errno
           /\ ret.cleanup \in {"unlinked", "failed"}
           /\ ret.cleanup = "unlinked" => ~PathExists(ret.id)

C4_Witness ==
    /\ ret.op = "add" /\ ret.errno = "EIO"
    /\ ret.cleanup = "unlinked" /\ ~PathExists(ret.id)

\* C5: an add that fails with EACCES, at the open or while streaming, raises
\* StorageWriteDenied and deletes nothing: the directory entry and the bytes
\* at the target path are as they were before the error.
C5_PermissionDenied ==
    [][\A p \in Procs, osOk \in BOOLEAN :
          (AddOpenFail(p, "EACCES", osOk) \/ AddStreamFail(p, "EACCES", osOk)) =>
              /\ ret'.status = "StorageWriteDenied" /\ ret'.cleanup = "none"
              /\ dir' = dir
              /\ PathExists(aid[p]) => inode'[dir[aid[p]]] = inode[dir[aid[p]]]]_vars

C5_Witness ==
    /\ ret.op = "add" /\ ret.status = "StorageWriteDenied"
    /\ PathExists(ret.id) /\ inode[dir[ret.id]] # <<>>

C7_MissingObject ==
    [][\A p \in Procs, id \in Ids :
          (/\ ~PathExists(id)
           /\ \/ \E op \in {"get", "get_size"} : ResolveExists(p, id, op)
              \/ DeleteExists(p, id)) =>
              /\ ret'.status = "NotFound" /\ ret'.id = id
              /\ ret'.op \in {"get", "get_size", "delete"}
              /\ pc'[p] = "idle"
              /\ UNCHANGED <<dir, inode, fp, fh>>]_vars

C7_Witness ==
    /\ ret.status = "NotFound" /\ ret.op = "get"
    /\ datadir = "datadir" /\ dirExists

\* C8: delete raises Forbidden only when the OS refuses the unlink for lack
\* of permission, and the file is then still there.
C8_ForbiddenOnlyOnDenial ==
    (ret.op = "delete" /\ ret.status = "Forbidden")
        => (ret.errno = "EACCES" /\ PathExists(ret.id))

\* C9: with a data directory configured, absent at first, and an OS that
\* lets it be created, every configure, alone or racing another, returns
\* without error and the directory exists when it returns.
C9_ConfigureIdempotent ==
    (conf = "datadir" /\ mkdirAllowed /\ ret.op = "configure")
        => (ret.status = "ok" /\ dirExists)

C9_Witness ==
    /\ ret.op = "configure" /\ ret.status = "ok" /\ ret.errno = "EEXIST"
    /\ dirExists

\* C10: whenever an iteration over a ChunkedFile is over (exhausted, given
\* up by the consumer, or ended by a read error), the handle opened at
\* construction has been closed, exactly once.
C10_ReleasedOnEveryExit ==
    \A p \in Procs : gen[p] = "done" => (fp[p] = 0 /\ closes[p] = 1)

\* the metadata documents a valid metadata file can hold
Docs == {"doc1", "doc2"}

\* C11: the metadata load never raises; it gives the empty mapping when no
\* metadata file is configured and when the file is missing, unreadable,
\* malformed or of the wrong shape. So an add whose write succeeded returns
\* success whatever the state of the metadata file, with empty metadata
\* unless the file holds a valid document, and the object stays stored.
C11_MetadataDegradation ==
    [][\A p \in Procs :
          AddFinish(p) =>
              /\ ret'.op = "add" /\ ret'.status = "ok"
              /\ metaFile \notin Docs => ret'.meta = EmptyMeta
              /\ dir'[aid[p]] # 0
              /\ inode'[dir'[aid[p]]] = image[p]]_vars

C11_Witness ==
    /\ ret.op = "add" /\ ret.status = "ok" /\ ret.meta = EmptyMeta
    /\ metaFile = "malformed"
    /\ PathExists(ret.id) /\ inode[dir[ret.id]] # <<>>

\* C12: a successful add returns as bytes_written the total length of the
\* chunks read from the stream and as checksum the digest of the whole
\* stream taken in one piece, whatever size the caller declared.
C12_ChecksumAndCount ==
    [][\A p \in Procs :
          AddFinish(p) =>
              /\ ret'.status = "ok"
              /\ ret'.val = Len(image[p])
              /\ ret'.checksum = Digest(image[p])
              /\ ret'.declared = image_size[p]]_vars

C12_Witness ==
    /\ ret.op = "add" /\ ret.status = "ok"
    /\ ret.declared # ret.val /\ ret.val > CHUNKSIZE
    /\ ret.val = Len(lastAdd[ret.id])
    /\ ret.checksum = Digest(lastAdd[ret.id])

\* C17 (as stated): every successful get, like every successful add, loads
\* the metadata file anew and returns the metadata with its response.
C17_MetadataOnGetAndAdd ==
    (ret.op \in {"get", "add"} /\ ret.status = "ok")
        => ret.meta = (IF metaFile \in Docs THEN metaFile ELSE EmptyMeta)

\* C17 (amended): every successful add loads the metadata file anew and
\* returns what the file holds at that call; a successful get returns the
\* reader and the size only: it loads no metadata and returns none.
C17_MetadataOnAddOnly ==
    /\ (ret.op = "add" /\ ret.status = "ok")
          => ret.meta = (IF metaFile \in Docs THEN metaFile ELSE EmptyMeta)
    /\ (ret.op = "get" /\ ret.status = "ok") => ret.meta = "-"

C17_Witness ==
    /\ ret.op = "get" /\ ret.status = "ok" /\ ret.meta = "-"
    /\ metaFile = "doc2"
    /\ lastAdd[ret.id] # NoData /\ ret.val = Len(lastAdd[ret.id])

\* the accepted schemes, and the URI scheme://t
Accepted == {File, Filesystem}
UriOf(scheme, t) == scheme \o Colon \o Slashes \o t
\* a path as it is written in a URI: not empty, no white space at its ends,
\* no query and no fragment
Plain(t) ==
    /\ t # <<>> /\ t[1] # " " /\ t[Len(t)] # " "
    /\ \A k \in 1..Len(t) : t[k] \notin {"?", "#"}

\* C13: for every URI scheme://path with an accepted scheme and a non-empty
\* path, parse_uri succeeds with that path and get_uri then returns
\* file://path, whichever of the two schemes was parsed; get_uri always
\* returns file:// followed by the path of the location; and parsing what
\* get_uri returned gives scheme file and the same path again.
C13_RoundTrip ==
    /\ \A scheme \in Accepted :
          LET t == Drop(uri, Len(scheme) + 3)
          IN (prev = Unset /\ uri = UriOf(scheme, t) /\ Plain(t)) =>
                /\ loc.status # "new" =>
                       (loc.status = "ok" /\ loc.path = t /\ loc.scheme = scheme)
                /\ out # Unset => out = UriOf(File, t)
    /\ out # Unset => (loc.status = "ok" /\ out = UriOf(File, loc.path))
    /\ (prev # Unset /\ loc.status # "new") =>
          (loc.status = "ok" /\ loc.scheme = File /\ loc.path = prev)

C13_Witness ==
    /\ prev = Unset /\ loc.scheme = Filesystem
    /\ uri = UriOf(Filesystem, <<"a", "/", "a">>)
    /\ out = UriOf(File, <<"a", "/", "a">>)

\* the host and path of the text after scheme: as the claim means them
HostAndPath(rest) ==
    Before(Before(IF Take(rest, 2) = Slashes THEN Drop(rest, 2) ELSE rest,
                  "#"), "?")
Blank(t) == \A k \in 1..Len(t) : t[k] = " "

\* C14: for both accepted schemes, parsing a URI whose host and path are
\* empty or all white space ends with BadStoreUri and sets no path; a
\* location that parse_uri accepted never has an empty path.
C14_EmptyPathRejected ==
    /\ \A scheme \in Accepted :
          LET rest == Drop(uri, Len(scheme) + 1)
          IN (/\ loc.status # "new"
              /\ uri = scheme \o Colon \o rest
              /\ Blank(HostAndPath(rest))) =>
                (loc.status = "BadStoreUri" /\ loc.path = Unset)
    /\ loc.status = "BadStoreUri" => loc.path = Unset
    /\ loc.status = "ok" => (loc.path # Unset /\ loc.path # <<>>)

C14_Witness ==
    /\ loc.status = "BadStoreUri" /\ loc.scheme = Filesystem
    /\ loc.path = Unset
    /\ uri = UriOf(Filesystem, <<" ", " ">>)

\* C15: a get or get_size that runs while the location is deleted ends its
\* resolve step with NotFound or with the path and a size: get_size ends
\* with no other error than NotFound, and get with no error of the size read.
C15_ResolveOnlyNotFound ==
    /\ ret.op = "get_size" => ret.status \in {"ok", "NotFound"}
    /\ ret.op = "get" => ret.status # "OSError"

\* an add of id by client p is in its Writing state: the target file is
\* open, the add has not returned
Writing(p, id) == pc[p] = "add_write" /\ aid[p] = id /\ fh[p] # 0

C18_ChunkSequence ==
    [][\A p \in Procs :
          /\ \A readOk \in BOOLEAN :
                IterNext(p, readOk) =>
                   /\ got'[p] # got[p] =>
                         /\ gen'[p] = "suspended"
                         /\ Len(got'[p]) > Len(got[p])
                         /\ Len(got'[p]) <= Len(got[p]) + CHUNKSIZE
                         /\ got'[p] = Take(inode[fp[p]], Len(got'[p]))
                   /\ (readOk /\ fp[p] # 0 /\ got'[p] = got[p]) =>
                         /\ got[p] = inode[fp[p]]
                         /\ gen'[p] = "done" /\ ended'[p] = "eof"
                         /\ fp'[p] = 0 /\ closes'[p] = 1
                   /\ (gen[p] = "fresh" /\ closes[p] > 0) =>
                         /\ gen'[p] = "done" /\ ended'[p] = "nofp"
                         /\ got'[p] = <<>>
                         /\ fp'[p] = 0 /\ closes'[p] = closes[p]
          /\ (Close(p) /\ fp[p] # 0) => (fp'[p] = 0 /\ closes'[p] = 1)]_vars

C18_Witness ==
    \E p \in Procs :
        /\ pc[p] = "reader" /\ gen[p] = "done" /\ ended[p] = "nofp"
        /\ got[p] = <<>> /\ fp[p] = 0 /\ closes[p] = 1
        /\ PathExists(aid[p]) /\ Len(inode[dir[aid[p]]]) > CHUNKSIZE

\* the object of id is stored as the add that returned success left it
Committed(id) ==
    lastAdd[id] # NoData /\ PathExists(id) /\ inode[dir[id]] = lastAdd[id]

\* C19: an object stored by an add that returned success stays at its path
\* with exactly the bytes of the stream through every step that is not the
\* unlink of a delete of the location.
C19_Durability ==
    [][\A id \in Ids :
          (/\ Committed(id)
           /\ ~\E p \in Procs, osOk \in BOOLEAN :
                 DeleteUnlink(p, osOk) /\ aid[p] = id) =>
              (dir'[id] # 0 /\ inode'[dir'[id]] = lastAdd[id])]_vars

\* C20: whenever no add of an id is in progress, a file at the path of the
\* id holds the whole stream of an add that returned success.
C20_OnlyCompleteVisible ==
    \A id \in Ids :
        (/\ PathExists(id)
         /\ \A p \in Procs :
               ~(aid[p] = id /\ pc[p] \in {"add_open", "add_write"})) =>
            inode[dir[id]] = lastAdd[id]

====
